---- MODULE Spec2Model ----
(***************************************************************************)
(* Model of HFTracker (src/hf_tracker.py): the change detector             *)
(* _check_user_updates, the scan cycle check_all_users, the state file     *)
(* written by _save_state and read by _load_state, and the scheduler loop  *)
(* run_continuous.                                                         *)
(***************************************************************************)
EXTENDS Integers, Sequences, FiniteSets, TLC

VARIABLES
    catalog,      \* remote catalog: model id -> ModelInfo held by the Hub
    changes,      \* number of catalog changes made so far
    state,        \* self.state: username -> snapshot
    disk,         \* self.state_file: [exists, text]
    proc,         \* "running", "stopped" (interrupt), "crashed" (error left run_continuous)
    pc,           \* position inside run_continuous / check_all_users
    in_initial,   \* TRUE while the cycle in flight is the call at line 319
    user_idx,     \* position of the for loop over self.hf_users
    all_updates,  \* all_updates of the check_all_users call in flight
    dispatched,   \* updates handed to _send_telegram_notification this cycle
    call,         \* locals of the last _check_user_updates call of this cycle
    fetch_failed, \* accounts whose list_models call raised in this cycle
    now,          \* datetime.now(), one tick per scan cycle
    restarts,     \* number of process restarts so far
    observed,     \* per account: ids of its last successful listing in this process
    new_reports,  \* per id: new_model events emitted while it stayed in the catalog
    deliveries,   \* per dispatched update: what _send_telegram_notification did
    saves,        \* documents _save_state has written in this cycle
    load_result,  \* what _load_state met when the process started
    check_errors, \* accounts whose _check_user_updates call raised in this cycle
    clean,        \* no fetch has failed and no check has raised so far in this cycle
    stable,       \* the previous cycle returned clean and the catalog is as it read it
    pauses        \* the sleeps of run_continuous since the previous cycle ended

vars == <<catalog, changes, state, disk, proc, pc, in_initial, user_idx,
          all_updates, dispatched, call, fetch_failed, now, restarts,
          observed, new_reports, deliveries, saves, load_result, check_errors,
          clean, stable, pauses>>

----------------------------------------------------------------------------
(* Bounds *)

MaxCycles == 3
MaxCatalogChanges == 2
MaxRestarts == 1

----------------------------------------------------------------------------
(* Data *)

None == "None"

\* self.hf_users, in configuration order
Users == <<"u1", "u2">>
UserSet == {Users[i] : i \in 1..Len(Users)}

ModelIds == {"u1/a", "u1/b", "u2/a"}

Author(id) == IF id \in {"u1/a", "u1/b"} THEN "u1" ELSE "u2"

IdsOf(u) == {id \in ModelIds : Author(id) = u}

\* commit hashes, timestamps and download counts the Hub can report
ShaVals == {None, "abc123", "def456"}
TimeVals == {None, "t1", "t2"}
DownloadVals == {None, "0"}

\* a ModelInfo object. Of the attributes _format_model_info copies, the model
\* carries those that are compared (sha, last_modified) or formatted with a
\* format spec (downloads); author, created_at, updated_at and tags are
\* copied and never compared. sha is None or a non-empty commit hash
ModelInfos(id) ==
    [id : {id}, sha : ShaVals, last_modified : TimeVals, downloads : DownloadVals]

\* the dicts whose keys are a subset of S and whose value at x is in T[x]
PartialFns(S, T) ==
    UNION {{f \in [D -> UNION {T[x] : x \in D}] : \A x \in D : f[x] \in T[x]} : D \in SUBSET S}

\* all orders in which the elements of a set can be enumerated
Perms(S) ==
    {s \in [1..Cardinality(S) -> S] : \A i, j \in 1..Cardinality(S) : s[i] = s[j] => i = j}

\* Python truthiness of an optional string
Truthy(x) == x # None /\ x # ""

\* dict.get(key, default)
Get(d, k, default) == IF k \in DOMAIN d THEN d[k] ELSE default

EmptyDict == <<>>

----------------------------------------------------------------------------
(* _get_user_models *)

\* datetime.isoformat()
IsoFormat(t) ==
    CASE t = "t1" -> "2024-01-01T00:00:00+00:00"
      [] t = "t2" -> "2024-02-01T00:00:00+00:00"

\* get_sort_key: last_modified if set, else datetime.min (updated_at and
\* created_at are not carried by the model's ModelInfo)
get_sort_key(m) ==
    CASE m.last_modified = "t1" -> 1
      [] m.last_modified = "t2" -> 2
      [] OTHER -> 0

RECURSIVE InsertDesc(_, _)
\* insert m after every element whose key is >= its own (stable, reverse=True)
InsertDesc(sorted, m) ==
    IF sorted = <<>> THEN <<m>>
    ELSE IF get_sort_key(sorted[1]) >= get_sort_key(m)
         THEN <<sorted[1]>> \o InsertDesc(Tail(sorted), m)
         ELSE <<m>> \o sorted

RECURSIVE SortModels(_)
SortModels(models) ==
    IF models = <<>> THEN <<>>
    ELSE InsertDesc(SortModels(SubSeq(models, 1, Len(models) - 1)), models[Len(models)])

\* the value _get_user_models returns: the sorted listing, or [] when
\* list_models raised
GetUserModels(listing, raised) ==
    IF raised THEN <<>> ELSE SortModels(listing)

\* what list_models can return for one catalog entry: the full record, or
\* the basic record, which omits sha and last_modified
LiteViews(m) ==
    {m, [m EXCEPT !.sha = None, !.last_modified = None]}

\* the listings list_models(author=username) can return for the catalog
Listings(cat, username) ==
    LET ids == {id \in DOMAIN cat : Author(id) = username}
    IN  {l \in [1..Cardinality(ids) -> UNION {LiteViews(cat[id]) : id \in ids}] :
            \A i, j \in 1..Cardinality(ids) : l[i].id = l[j].id => i = j}

----------------------------------------------------------------------------
(* _format_model_info *)

FormatModelInfo(model) ==
    [id |-> model.id,
     last_modified |-> IF Truthy(model.last_modified)
                       THEN IsoFormat(model.last_modified) ELSE None,
     sha |-> model.sha,
     downloads |-> model.downloads]

----------------------------------------------------------------------------
(* _check_user_updates *)

\* current_model_ids = {model.id for model in current_models}
CurrentModelIds(current_models) ==
    {current_models[i].id : i \in 1..Len(current_models)}

CurrentModelDictDropsFailed(current_models, cat, detail_failed) ==
    [id \in CurrentModelIds(current_models) \ detail_failed |->
        FormatModelInfo(cat[id])]

\* lines 137-146: the detailed record, or the basic one when model_info failed
CurrentModelDict(current_models, cat, detail_failed) ==
    [id \in CurrentModelIds(current_models) |->
        LET model == CHOOSE m \in {current_models[i] : i \in 1..Len(current_models)} :
                         m.id = id
            detailed_ok == id \in DOMAIN cat /\ id \notin detail_failed
        IN  IF detailed_ok THEN FormatModelInfo(cat[id]) ELSE FormatModelInfo(model)]

NewModelIdsSwapped(current_model_ids, previous_model_ids) ==
    previous_model_ids \ current_model_ids

\* line 149
NewModelIds(current_model_ids, previous_model_ids) ==
    current_model_ids \ previous_model_ids

ExistingModelIdsAllCurrent(current_model_ids, previous_model_ids) ==
    current_model_ids

ExistingModelIdsAllPrevious(current_model_ids, previous_model_ids) ==
    previous_model_ids

\* line 160
ExistingModelIds(current_model_ids, previous_model_ids) ==
    current_model_ids \cap previous_model_ids

\* lines 151-156
NewModelEvent(username, model_id, current_model_dict) ==
    [type |-> "new_model", user |-> username, model_id |-> model_id,
     model_info |-> Get(current_model_dict, model_id, EmptyDict)]

ShaEvent(username, model_id, previous_sha, current_sha, current_info) ==
    [type |-> "model_updated", user |-> username, model_id |-> model_id,
     previous_sha |-> previous_sha, current_sha |-> current_sha,
     model_info |-> current_info]

ModifiedEvent(username, model_id, previous_modified, current_modified, current_info) ==
    [type |-> "model_updated", user |-> username, model_id |-> model_id,
     previous_modified |-> previous_modified, current_modified |-> current_modified,
     model_info |-> current_info]

UpdateEventsModifiedFirst(username, model_id, current_info, previous_info) ==
    LET current_sha == Get(current_info, "sha", None)
        previous_sha == Get(previous_info, "sha", None)
        current_modified == Get(current_info, "last_modified", None)
        previous_modified == Get(previous_info, "last_modified", None)
    IN  IF current_modified # previous_modified
        THEN <<ModifiedEvent(username, model_id, previous_modified, current_modified, current_info)>>
        ELSE IF Truthy(current_sha) /\ Truthy(previous_sha) /\ current_sha # previous_sha
        THEN <<ShaEvent(username, model_id, previous_sha, current_sha, current_info)>>
        ELSE <<>>

UpdateEventsWholeRecord(username, model_id, current_info, previous_info) ==
    LET current_sha == Get(current_info, "sha", None)
        previous_sha == Get(previous_info, "sha", None)
        current_modified == Get(current_info, "last_modified", None)
        previous_modified == Get(previous_info, "last_modified", None)
    IN  IF Truthy(current_sha) /\ Truthy(previous_sha) /\ current_sha # previous_sha
        THEN <<ShaEvent(username, model_id, previous_sha, current_sha, current_info)>>
        ELSE IF current_info # previous_info
        THEN <<ModifiedEvent(username, model_id, previous_modified, current_modified, current_info)>>
        ELSE <<>>

UpdateEventsNoTruthiness(username, model_id, current_info, previous_info) ==
    LET current_sha == Get(current_info, "sha", None)
        previous_sha == Get(previous_info, "sha", None)
        current_modified == Get(current_info, "last_modified", None)
        previous_modified == Get(previous_info, "last_modified", None)
    IN  IF current_sha # previous_sha
        THEN <<ShaEvent(username, model_id, previous_sha, current_sha, current_info)>>
        ELSE IF current_modified # previous_modified
        THEN <<ModifiedEvent(username, model_id, previous_modified, current_modified, current_info)>>
        ELSE <<>>

\* lines 162-190: the events one existing id contributes (none or one)
UpdateEvents(username, model_id, current_info, previous_info) ==
    LET current_sha == Get(current_info, "sha", None)
        previous_sha == Get(previous_info, "sha", None)
        current_modified == Get(current_info, "last_modified", None)
        previous_modified == Get(previous_info, "last_modified", None)
    IN  IF Truthy(current_sha) /\ Truthy(previous_sha) /\ current_sha # previous_sha
        THEN <<ShaEvent(username, model_id, previous_sha, current_sha, current_info)>>
        ELSE IF current_modified # previous_modified
        THEN <<ModifiedEvent(username, model_id, previous_modified, current_modified, current_info)>>
        ELSE <<>>

RECURSIVE ExistingEvents(_, _, _, _)
\* the loop of lines 161-190 over the existing ids in iteration order
ExistingEvents(username, order, current_model_dict, previous_models) ==
    IF order = <<>> THEN <<>>
    ELSE UpdateEvents(username, order[1],
                      Get(current_model_dict, order[1], EmptyDict),
                      Get(previous_models, order[1], EmptyDict))
         \o ExistingEvents(username, Tail(order), current_model_dict, previous_models)

\* the loop of lines 150-157 over the new ids in iteration order
NewEvents(username, order, current_model_dict) ==
    [i \in 1..Len(order) |-> NewModelEvent(username, order[i], current_model_dict)]

SnapshotCountsHashed(current_model_dict, time) ==
    [models |-> current_model_dict,
     last_checked |-> time,
     model_count |-> Cardinality({id \in DOMAIN current_model_dict :
                                     Truthy(Get(current_model_dict[id], "sha", None))})]

\* lines 193-197
Snapshot(current_model_dict, time) ==
    [models |-> current_model_dict,
     last_checked |-> time,
     model_count |-> Cardinality(DOMAIN current_model_dict)]

\* previous_state.get("models", {}) of self.state.get(username, {})
PreviousModels(st, username) ==
    Get(Get(st, username, EmptyDict), "models", EmptyDict)

----------------------------------------------------------------------------
(* The state file: _save_state and _load_state *)

\* the text json.dump writes, in the chunks it reaches the file: the opening
\* brace, one entry per account in dict order, the closing brace
Token(kind, username, snap) == [k |-> kind, user |-> username, snap |-> snap]

RECURSIVE Entries(_, _)
Entries(st, i) ==
    IF i > Len(Users) THEN <<>>
    ELSE (IF Users[i] \in DOMAIN st
          THEN <<Token("entry", Users[i], st[Users[i]])>> ELSE <<>>)
         \o Entries(st, i + 1)

Serialize(st) ==
    <<Token("{", None, EmptyDict)>> \o Entries(st, 1) \o <<Token("}", None, EmptyDict)>>

\* json.load succeeds exactly on a complete document
WellFormed(text) ==
    /\ Len(text) >= 2
    /\ text[1].k = "{"
    /\ text[Len(text)].k = "}"
    /\ \A i \in 2..(Len(text) - 1) : text[i].k = "entry"

ParseJson(text) ==
    LET users == {text[i].user : i \in 2..(Len(text) - 1)}
    IN  [u \in users |->
            (CHOOSE i \in 2..(Len(text) - 1) : text[i].user = u) ]

Parsed(text) ==
    LET idx == ParseJson(text) IN [u \in DOMAIN idx |-> text[idx[u]].snap]

\* what _load_state meets: no file (line 59 is false), a file json.load
\* parses, or a file on which json.load raises (lines 65-67)
LoadResult(d) ==
    IF ~d.exists THEN "missing"
    ELSE IF WellFormed(d.text) THEN "loaded"
    ELSE "corrupt"

LoadStateLenient(d) ==
    IF ~d.exists THEN EmptyDict
    ELSE LET at == {i \in 1..Len(d.text) : d.text[i].k = "entry"}
         IN  [u \in {d.text[i].user : i \in at} |->
                 d.text[CHOOSE i \in at : d.text[i].user = u].snap]

\* _load_state: {} when the file is missing or json.load raises
LoadState(d) ==
    IF ~d.exists THEN EmptyDict
    ELSE IF WellFormed(d.text) THEN Parsed(d.text)
    ELSE EmptyDict

NoFile == [exists |-> FALSE, text |-> <<>>]

----------------------------------------------------------------------------
(* _format_update_message *)

\* f"{model_info.get('downloads', 0):,}" raises TypeError when downloads is None
FormatRaises(update) ==
    /\ update.type = "new_model"
    /\ Get(update.model_info, "downloads", "0") = None

----------------------------------------------------------------------------
(* State machine *)

NoCall == [username |-> None]
NoObs == [seen |-> FALSE, ids |-> {}]

\* the first statements of check_all_users
BeginCycle ==
    /\ pc' = "check"
    /\ user_idx' = 1
    /\ all_updates' = <<>>
    /\ dispatched' = <<>>
    /\ call' = NoCall
    /\ fetch_failed' = {}
    /\ now' = now + 1
    /\ deliveries' = <<>>
    /\ saves' = 0
    /\ check_errors' = {}
    /\ clean' = TRUE

Init ==
    /\ catalog = EmptyDict
    /\ changes = 0
    /\ disk = NoFile
    /\ state = LoadState(NoFile)
    /\ proc = "running"
    /\ pc = "check"
    /\ in_initial = TRUE
    /\ user_idx = 1
    /\ all_updates = <<>>
    /\ dispatched = <<>>
    /\ call = NoCall
    /\ fetch_failed = {}
    /\ now = 1
    /\ restarts = 0
    /\ observed = [u \in UserSet |-> NoObs]
    /\ new_reports = [id \in ModelIds |-> 0]
    /\ deliveries = <<>>
    /\ saves = 0
    /\ load_result = "missing"
    /\ check_errors = {}
    /\ clean = TRUE
    /\ stable = FALSE
    /\ pauses = <<>>

\* the record of a model when it is first published
FirstInfos(id) ==
    [id : {id}, sha : {"abc123"}, last_modified : {"t1"}, downloads : DownloadVals]

\* the Hub: a model is published, receives a commit or is deleted. The
\* tracker reads the catalog only while it checks the accounts, so the changes
\* made since the last read are taken there
CatalogChange ==
    /\ proc = "running"
    /\ pc = "check"
    /\ changes < MaxCatalogChanges
    /\ changes' = changes + 1
    /\ \E id \in ModelIds :
          \/ /\ id \in DOMAIN catalog
             /\ catalog' = [x \in DOMAIN catalog \ {id} |-> catalog[x]]
             /\ new_reports' = [new_reports EXCEPT ![id] = 0]
          \/ /\ id \notin DOMAIN catalog
             /\ \E m \in FirstInfos(id) :
                   catalog' = [x \in DOMAIN catalog \cup {id} |->
                                  IF x = id THEN m ELSE catalog[x]]
             /\ UNCHANGED new_reports
          \/ /\ id \in DOMAIN catalog
             /\ catalog[id].sha = "abc123"
             /\ catalog' = [catalog EXCEPT ![id].sha = "def456",
                                           ![id].last_modified = "t2"]
             /\ UNCHANGED new_reports
    /\ clean' = (clean /\ user_idx = 1)
    /\ stable' = FALSE
    /\ UNCHANGED <<state, disk, proc, pc, in_initial, user_idx, all_updates,
                   dispatched, call, fetch_failed, now, restarts, observed,
                   deliveries, saves, load_result, check_errors, pauses>>

UpdatesExistingFirst(new_events, existing_events) == existing_events \o new_events

\* the order in which _check_user_updates appends to updates: the loop over
\* the new ids (lines 150-157) runs before the loop over the existing ids
\* (lines 161-190)
Updates(new_events, existing_events) == new_events \o existing_events

CountNew(updates, id) ==
    Cardinality({i \in 1..Len(updates) :
                    updates[i].type = "new_model" /\ updates[i].model_id = id})

\* one iteration of the for loop of check_all_users: _check_user_updates(username)
\* and all_updates.extend(updates). list_models raises or returns a listing;
\* model_info fails for any subset of the listed ids; the two sets of ids are
\* iterated in any order
CheckUser ==
    /\ proc = "running"
    /\ pc = "check"
    /\ user_idx <= Len(Users)
    /\ LET username == Users[user_idx] IN
       \E raised \in BOOLEAN :
       \E listing \in Listings(catalog, username) :
       \E detail_failed \in SUBSET IdsOf(username) :
          LET current_models == GetUserModels(listing, raised)
              current_model_ids == CurrentModelIds(current_models)
              previous_state == Get(state, username, EmptyDict)
              previous_models == PreviousModels(state, username)
              previous_model_ids == DOMAIN previous_models
              current_model_dict == CurrentModelDict(current_models, catalog, detail_failed)
          IN
          \E new_order \in Perms(NewModelIds(current_model_ids, previous_model_ids)) :
          \E existing_order \in Perms(ExistingModelIds(current_model_ids, previous_model_ids)) :
             LET updates == Updates(NewEvents(username, new_order, current_model_dict),
                                    ExistingEvents(username, existing_order,
                                                   current_model_dict, previous_models))
                 failed_ids == detail_failed \cap current_model_ids
             IN
             /\ state' = [u \in DOMAIN state \cup {username} |->
                             IF u = username THEN Snapshot(current_model_dict, now)
                             ELSE state[u]]
             /\ all_updates' = all_updates \o updates
             /\ call' = [username |-> username,
                         raised |-> raised,
                         had_previous |-> username \in DOMAIN state,
                         previous_state |-> previous_state,
                         previous_models |-> previous_models,
                         current_model_dict |-> current_model_dict,
                         seen_before |-> observed[username],
                         updates |-> updates,
                         error |-> FALSE,
                         listed_ids |-> current_model_ids,
                         basic |-> [id \in failed_ids |->
                                       current_models[CHOOSE i \in 1..Len(current_models) :
                                                         current_models[i].id = id]]]
             /\ fetch_failed' = IF raised THEN fetch_failed \cup {username} ELSE fetch_failed
             /\ observed' = IF raised THEN observed
                            ELSE [observed EXCEPT ![username] =
                                     [seen |-> TRUE, ids |-> current_model_ids]]
             /\ new_reports' = [id \in ModelIds |-> new_reports[id] + CountNew(updates, id)]
             /\ clean' = (clean /\ ~raised /\ failed_ids = {})
    /\ user_idx' = user_idx + 1
    /\ pc' = IF user_idx = Len(Users) THEN "save" ELSE "check"
    /\ UNCHANGED <<catalog, changes, disk, proc, in_initial, dispatched, now, restarts,
                   deliveries, saves, load_result, check_errors, stable, pauses>>

CheckUserRaisesEscapes ==
    /\ proc = "running"
    /\ pc = "check"
    /\ user_idx <= Len(Users)
    /\ check_errors' = check_errors \cup {Users[user_idx]}
    /\ call' = NoCall
    /\ clean' = FALSE
    /\ IF in_initial
       THEN proc' = "crashed" /\ UNCHANGED pc
       ELSE pc' = "cooldown" /\ UNCHANGED proc
    /\ UNCHANGED <<catalog, changes, state, disk, in_initial, user_idx, all_updates,
                   dispatched, fetch_failed, now, restarts, observed, new_reports,
                   deliveries, saves, load_result, stable, pauses>>

\* one iteration of the for loop of check_all_users in which
\* _check_user_updates raises before line 193: the except of lines 295-296
\* logs the error, nothing is assigned and nothing is added to all_updates
CheckUserRaises ==
    /\ proc = "running"
    /\ pc = "check"
    /\ user_idx <= Len(Users)
    /\ LET username == Users[user_idx] IN
          /\ call' = [username |-> username,
                      raised |-> FALSE,
                      had_previous |-> username \in DOMAIN state,
                      previous_state |-> Get(state, username, EmptyDict),
                      previous_models |-> PreviousModels(state, username),
                      current_model_dict |-> EmptyDict,
                      seen_before |-> observed[username],
                      updates |-> <<>>,
                      error |-> TRUE,
                      listed_ids |-> {},
                      basic |-> EmptyDict]
          /\ check_errors' = check_errors \cup {username}
    /\ clean' = FALSE
    /\ user_idx' = user_idx + 1
    /\ pc' = IF user_idx = Len(Users) THEN "save" ELSE "check"
    /\ UNCHANGED <<catalog, changes, state, disk, proc, in_initial, all_updates,
                   dispatched, fetch_failed, now, restarts, observed, new_reports,
                   deliveries, saves, load_result, stable, pauses>>

\* the text that can be in the file when a write of text is cut short
Prefixes(text) == {SubSeq(text, 1, n) : n \in 0..Len(text)}

SaveSkipped ==
    /\ proc = "running"
    /\ pc = "save"
    /\ pc' = "notify"
    /\ call' = NoCall
    /\ UNCHANGED <<catalog, changes, state, disk, proc, in_initial, user_idx, all_updates,
                   dispatched, fetch_failed, now, restarts, observed, new_reports,
                   deliveries, saves, load_result, check_errors, clean, stable, pauses>>

\* _save_state, line 75: open(self.state_file, 'w') truncates the file
SaveOpen ==
    /\ proc = "running"
    /\ pc = "save"
    /\ disk' = [exists |-> TRUE, text |-> <<>>]
    /\ pc' = "write"
    /\ call' = NoCall
    /\ UNCHANGED <<catalog, changes, state, proc, in_initial, user_idx, all_updates,
                   dispatched, fetch_failed, now, restarts, observed, new_reports,
                   deliveries, saves, load_result, check_errors, clean, stable, pauses>>

\* _save_state, line 76: json.dump writes the document and the file is closed
SaveWrite ==
    /\ proc = "running"
    /\ pc = "write"
    /\ disk' = [disk EXCEPT !.text = Serialize(state)]
    /\ saves' = saves + 1
    /\ pc' = "notify"
    /\ UNCHANGED <<catalog, changes, state, proc, in_initial, user_idx, all_updates,
                   dispatched, call, fetch_failed, now, restarts, observed, new_reports,
                   deliveries, load_result, check_errors, clean, stable, pauses>>

\* _save_state, lines 78-79: open raises (the file is left as it was) and
\* the error is logged
SaveOpenFails ==
    /\ proc = "running"
    /\ pc = "save"
    /\ pc' = "notify"
    /\ call' = NoCall
    /\ UNCHANGED <<catalog, changes, state, disk, proc, in_initial, user_idx, all_updates,
                   dispatched, fetch_failed, now, restarts, observed, new_reports,
                   deliveries, saves, load_result, check_errors, clean, stable, pauses>>

\* _save_state, lines 78-79: json.dump raises part way (the file keeps what
\* was written) and the error is logged
SaveWriteFails ==
    /\ proc = "running"
    /\ pc = "write"
    /\ \E text \in Prefixes(Serialize(state)) \ {Serialize(state)} :
          disk' = [disk EXCEPT !.text = text]
    /\ pc' = "notify"
    /\ UNCHANGED <<catalog, changes, state, proc, in_initial, user_idx, all_updates,
                   dispatched, call, fetch_failed, now, restarts, observed, new_reports,
                   deliveries, saves, load_result, check_errors, clean, stable, pauses>>

\* what awaiting telegram_bot.send_message can do: return, or raise an error
\* of one of the classes _send_telegram_notification tells apart
SendOutcomes == {"ok", "RuntimeError", "TelegramError", "Exception"}

\* the except clauses of _send_telegram_notification (lines 220, 234, 236)
CaughtKinds == {"RuntimeError", "TelegramError", "Exception"}

SendEscapesTelegramError(first) == first = "TelegramError"

\* the error of the first send attempt leaves _send_telegram_notification
SendEscapes(first) == first # "ok" /\ first \notin CaughtKinds

\* the number of times send_message is invoked for one message: once by
\* asyncio.run (line 219) and, when that raises RuntimeError, once more by
\* the worker thread of lines 224-233
SendCalls(first) == IF first = "RuntimeError" THEN 2 ELSE 1

\* the message reached the channel: the first send returned, or the send of
\* the worker thread did (an error inside the thread stays in the thread)
Delivered(first, second) ==
    \/ first = "ok"
    \/ first = "RuntimeError" /\ second = "ok"

\* the body of the notification loop for the next update, when
\* _format_update_message returns: the message is handed to
\* _send_telegram_notification, which is assumed configured with a bot and a
\* channel, then time.sleep(1)
Notify ==
    /\ proc = "running"
    /\ pc = "notify"
    /\ Len(dispatched) < Len(all_updates)
    /\ ~FormatRaises(all_updates[Len(dispatched) + 1])
    /\ \E first \in SendOutcomes : \E second \in SendOutcomes :
          /\ ~SendEscapes(first)
          /\ deliveries' = Append(deliveries, [calls |-> SendCalls(first),
                                               delivered |-> Delivered(first, second)])
    /\ dispatched' = Append(dispatched, all_updates[Len(dispatched) + 1])
    /\ UNCHANGED <<catalog, changes, state, disk, proc, pc, in_initial, user_idx,
                   all_updates, call, fetch_failed, now, restarts, observed, new_reports,
                   saves, load_result, check_errors, clean, stable, pauses>>

\* _format_update_message raises, or an error leaves
\* _send_telegram_notification: the error leaves check_all_users. The call
\* at line 319 is outside the try of run_continuous; the call at line 326 is
\* inside it and ends in the handler of lines 330-332
NotifyRaises ==
    /\ proc = "running"
    /\ pc = "notify"
    /\ Len(dispatched) < Len(all_updates)
    /\ IF FormatRaises(all_updates[Len(dispatched) + 1]) THEN TRUE
       ELSE \E first \in SendOutcomes : SendEscapes(first)
    /\ IF in_initial
       THEN proc' = "crashed" /\ UNCHANGED pc
       ELSE pc' = "cooldown" /\ UNCHANGED proc
    /\ stable' = FALSE
    /\ pauses' = <<>>
    /\ UNCHANGED <<catalog, changes, state, disk, in_initial, user_idx, all_updates,
                   dispatched, call, fetch_failed, now, restarts, observed, new_reports,
                   deliveries, saves, load_result, check_errors, clean>>

\* check_all_users returns all_updates; run_continuous is at the top of its loop
CycleReturn ==
    /\ proc = "running"
    /\ pc = "notify"
    /\ Len(dispatched) = Len(all_updates)
    /\ pc' = "sleep"
    /\ in_initial' = FALSE
    /\ stable' = clean
    /\ pauses' = <<>>
    /\ UNCHANGED <<catalog, changes, state, disk, proc, user_idx, all_updates,
                   dispatched, call, fetch_failed, now, restarts, observed, new_reports,
                   deliveries, saves, load_result, check_errors, clean>>

\* lines 324-326: time.sleep(self.check_interval), then check_all_users begins
SleepThenCycle ==
    /\ proc = "running"
    /\ pc = "sleep"
    /\ now < MaxCycles
    /\ pauses' = Append(pauses, "interval")
    /\ BeginCycle
    /\ in_initial' = FALSE
    /\ UNCHANGED <<catalog, changes, state, disk, proc, restarts, observed, new_reports,
                   load_result, stable>>

\* line 332: time.sleep(60), then the loop starts over
CoolDown ==
    /\ proc = "running"
    /\ pc = "cooldown"
    /\ pc' = "sleep"
    /\ pauses' = Append(pauses, "cooldown")
    /\ UNCHANGED <<catalog, changes, state, disk, proc, in_initial, user_idx, all_updates,
                   dispatched, call, fetch_failed, now, restarts, observed, new_reports,
                   deliveries, saves, load_result, check_errors, clean, stable>>

\* KeyboardInterrupt at a point of run_continuous where nothing is half done:
\* the loop breaks (lines 327-329) or the interrupt ends the initial check
Interrupt ==
    /\ proc = "running"
    /\ pc # "write"
    /\ proc' = "stopped"
    /\ UNCHANGED <<catalog, changes, state, disk, pc, in_initial, user_idx, all_updates,
                   dispatched, call, fetch_failed, now, restarts, observed, new_reports,
                   deliveries, saves, load_result, check_errors, clean, stable, pauses>>

\* the process is interrupted or killed inside json.dump: the file holds
\* what had reached it
InterruptInWrite ==
    /\ proc = "running"
    /\ pc = "write"
    /\ proc' = "stopped"
    /\ \E text \in Prefixes(Serialize(state)) :
          disk' = [disk EXCEPT !.text = text]
    /\ UNCHANGED <<catalog, changes, state, pc, in_initial, user_idx, all_updates,
                   dispatched, call, fetch_failed, now, restarts, observed, new_reports,
                   deliveries, saves, load_result, check_errors, clean, stable, pauses>>

\* the process is started again: __init__ loads the state file, run_continuous
\* begins its initial check
Restart ==
    /\ proc # "running"
    /\ restarts < MaxRestarts
    /\ now < MaxCycles
    /\ restarts' = restarts + 1
    /\ proc' = "running"
    /\ state' = LoadState(disk)
    /\ load_result' = LoadResult(disk)
    /\ in_initial' = TRUE
    /\ BeginCycle
    /\ observed' = [u \in UserSet |-> NoObs]
    /\ new_reports' = [id \in ModelIds |-> 0]
    /\ stable' = FALSE
    /\ pauses' = <<>>
    /\ UNCHANGED <<catalog, changes, disk>>

Next ==
    \/ CatalogChange
    \/ CheckUser
    \/ SaveOpen
    \/ SaveWrite
    \/ Notify
    \/ NotifyRaises
    \/ CycleReturn
    \/ SleepThenCycle
    \/ CoolDown

Spec == Init /\ [][Next]_vars

----------------------------------------------------------------------------
(* The state file across process lifetimes: scan cycles over a catalog that
   holds one model per account, with the process interrupted at any point
   and started again, and with _save_state failing *)

InitCrash ==
    /\ catalog \in [{"u1/a", "u2/a"} -> UNION {FirstInfos(id) : id \in ModelIds}]
    /\ \A id \in DOMAIN catalog : catalog[id].id = id
    /\ changes = 0
    /\ disk = NoFile
    /\ state = LoadState(NoFile)
    /\ proc = "running"
    /\ pc = "check"
    /\ in_initial = TRUE
    /\ user_idx = 1
    /\ all_updates = <<>>
    /\ dispatched = <<>>
    /\ call = NoCall
    /\ fetch_failed = {}
    /\ now = 1
    /\ restarts = 0
    /\ observed = [u \in UserSet |-> NoObs]
    /\ new_reports = [id \in ModelIds |-> 0]
    /\ deliveries = <<>>
    /\ saves = 0
    /\ load_result = "missing"
    /\ check_errors = {}
    /\ clean = TRUE
    /\ stable = FALSE
    /\ pauses = <<>>

NextCrash ==
    \/ CheckUser
    \/ SaveOpen
    \/ SaveWrite
    \/ SaveOpenFails
    \/ SaveWriteFails
    \/ Notify
    \/ NotifyRaises
    \/ CycleReturn
    \/ SleepThenCycle
    \/ CoolDown
    \/ Interrupt
    \/ InterruptInWrite
    \/ Restart

SpecCrash == InitCrash /\ [][NextCrash]_vars

----------------------------------------------------------------------------
(* Unexpected errors: scan cycles over the same catalog in which any call of
   _check_user_updates may raise *)

NextErr ==
    \/ CheckUser
    \/ CheckUserRaises
    \/ SaveOpen
    \/ SaveWrite
    \/ Notify
    \/ NotifyRaises
    \/ CycleReturn
    \/ SleepThenCycle
    \/ CoolDown

SpecErr == InitCrash /\ [][NextErr]_vars

----------------------------------------------------------------------------
(* The change detector on arbitrary inputs: one scan cycle from any previous
   snapshot of account u1 and any catalog of its models *)

\* the records of the catalog: every combination for u1/a, two revisions
\* for u1/b
DetInfos(id) ==
    IF id = "u1/a" THEN ModelInfos(id)
    ELSE {m \in ModelInfos(id) :
            /\ m.downloads = "0"
            /\ <<m.sha, m.last_modified>> \in {<<"abc123", "t1">>, <<"def456", "t2">>}}

\* the records of the previous snapshot, as an earlier cycle stored them
PreviousInfos(id) ==
    {FormatModelInfo(m) :
        m \in {x \in DetInfos(id) : x.downloads = "0" /\ (id = "u1/a" \/ x.sha = "abc123")}}

InitDet ==
    /\ catalog \in PartialFns(IdsOf("u1"), [id \in ModelIds |-> DetInfos(id)])
    /\ changes = 0
    /\ disk = NoFile
    /\ state \in {EmptyDict} \cup
                 {[u \in {"u1"} |-> Snapshot(p, 0)] : p \in PartialFns(IdsOf("u1"), [id \in ModelIds |-> PreviousInfos(id)])}
    /\ proc = "running"
    /\ pc = "check"
    /\ in_initial = TRUE
    /\ user_idx = 1
    /\ all_updates = <<>>
    /\ dispatched = <<>>
    /\ call = NoCall
    /\ fetch_failed = {}
    /\ now = 1
    /\ restarts = 0
    /\ observed = [u \in UserSet |-> NoObs]
    /\ new_reports = [id \in ModelIds |-> 0]
    /\ deliveries = <<>>
    /\ saves = 0
    /\ load_result = "missing"
    /\ check_errors = {}
    /\ clean = TRUE
    /\ stable = FALSE
    /\ pauses = <<>>

NextDet == CheckUser

SpecDet == InitDet /\ [][NextDet]_vars

----------------------------------------------------------------------------
(* Properties *)

Called == call.username # None

\* the positions of the events of the last call that name model id
EventsOf(id) == {i \in 1..Len(call.updates) : call.updates[i].model_id = id}

PrevIds == DOMAIN call.previous_models
CurrIds == DOMAIN call.current_model_dict
CommonIds == PrevIds \cap CurrIds

IsShaReason(e) ==
    /\ e.type = "model_updated"
    /\ "previous_sha" \in DOMAIN e
    /\ "previous_modified" \notin DOMAIN e

IsModifiedReason(e) ==
    /\ e.type = "model_updated"
    /\ "previous_modified" \in DOMAIN e
    /\ "previous_sha" \notin DOMAIN e

\* C1: when the listing fetch of an account fails and the account had a
\* snapshot with models in it, the stored snapshot after the check (models,
\* last_checked, model_count) equals the one before it.
C1_FailedFetchKeepsSnapshot ==
    (Called /\ call.raised /\ call.had_previous /\ PrevIds # {})
        => state[call.username] = call.previous_state

\* C2: an id that stays in the catalog is reported as new_model at most once
\* in a process lifetime, and a new_model event names an id that was absent
\* at the account's previous successful listing.
C2_NoFalseNewReports ==
    /\ \A id \in ModelIds : new_reports[id] <= 1
    /\ (Called /\ call.seen_before.seen)
          => \A i \in 1..Len(call.updates) :
                call.updates[i].type = "new_model"
                    => call.updates[i].model_id \notin call.seen_before.ids

\* C3: an account whose listing fetch failed in this cycle has no event in
\* the cycle's update list and none among the dispatched notifications.
C3_FailedFetchNoEvents ==
    /\ \A i \in 1..Len(all_updates) : all_updates[i].user \notin fetch_failed
    /\ \A i \in 1..Len(dispatched) : dispatched[i].user \notin fetch_failed

\* a cycle has ended in which u1's fetch failed after its models had been
\* seen, and another account's event was dispatched
C3_Witness ==
    /\ pc = "sleep"
    /\ "u1" \in fetch_failed
    /\ observed["u1"].seen /\ observed["u1"].ids # {}
    /\ Len(dispatched) >= 1

\* C4: whenever the process has stopped, the state file, if there is one,
\* holds a complete document (never a partially written one).
C4_StoppedFileComplete ==
    (proc # "running" /\ disk.exists) => WellFormed(disk.text)

\* C5: no error that leaves check_all_users ends run_continuous.
C5_ErrorNeverEndsLoop == proc # "crashed"

\* C6: with disjoint id sets the call returns one new_model event per
\* current id and nothing else.
C6_DisjointAllNew ==
    (Called /\ PrevIds \cap CurrIds = {})
        => /\ Len(call.updates) = Cardinality(CurrIds)
           /\ \A id \in CurrIds :
                 \E i \in 1..Len(call.updates) :
                    /\ call.updates[i].type = "new_model"
                    /\ call.updates[i].model_id = id
           /\ \A i \in 1..Len(call.updates) : call.updates[i].type # "model_updated"

\* a previous snapshot with one id and a listing with the other one
C6_Witness ==
    /\ Called
    /\ ~call.raised
    /\ PrevIds = {"u1/a"}
    /\ CurrIds = {"u1/b"}
    /\ Len(call.updates) = 1

\* C7: a common id gets at most one model_updated event, and when its sha
\* (present on both sides) and its last_modified both differ, that event
\* carries the sha reason with the old and the new sha.
C7_ShaReasonFirst ==
    Called =>
      \A id \in CommonIds :
         LET p == call.previous_models[id]
             c == call.current_model_dict[id]
         IN  /\ Cardinality(EventsOf(id)) <= 1
             /\ (p.sha # None /\ c.sha # None /\ p.sha # c.sha
                    /\ p.last_modified # c.last_modified)
                   => \E i \in EventsOf(id) :
                         /\ IsShaReason(call.updates[i])
                         /\ call.updates[i].previous_sha = p.sha
                         /\ call.updates[i].current_sha = c.sha

\* u1/a changed both its sha and its last_modified
C7_Witness ==
    /\ Called
    /\ "u1/a" \in CommonIds
    /\ call.previous_models["u1/a"].sha = "abc123"
    /\ call.current_model_dict["u1/a"].sha = "def456"
    /\ call.previous_models["u1/a"].last_modified # call.current_model_dict["u1/a"].last_modified
    /\ Cardinality(EventsOf("u1/a")) = 1

\* C8: a common id whose sha and last_modified are the same on both sides gets
\* no event, whatever else differs.
C8_UnchangedNoEvent ==
    Called =>
      \A id \in CommonIds :
         LET p == call.previous_models[id]
             c == call.current_model_dict[id]
         IN  (p.sha = c.sha /\ p.last_modified = c.last_modified) => EventsOf(id) = {}

\* u1/a kept its sha and last_modified and changed its download count
C8_Witness ==
    /\ Called
    /\ "u1/a" \in CommonIds
    /\ call.previous_models["u1/a"].sha = call.current_model_dict["u1/a"].sha
    /\ call.previous_models["u1/a"].last_modified = call.current_model_dict["u1/a"].last_modified
    /\ call.previous_models["u1/a"].downloads # call.current_model_dict["u1/a"].downloads
    /\ EventsOf("u1/a") = {}

\* C9: a common id whose sha is absent on a side and whose last_modified
\* differs gets exactly one event, model_updated with the last_modified
\* reason and the old and new timestamps.
C9_ModifiedFallback ==
    Called =>
      \A id \in CommonIds :
         LET p == call.previous_models[id]
             c == call.current_model_dict[id]
         IN  ((p.sha = None \/ c.sha = None) /\ p.last_modified # c.last_modified)
                => /\ Cardinality(EventsOf(id)) = 1
                   /\ \A i \in EventsOf(id) :
                         /\ IsModifiedReason(call.updates[i])
                         /\ call.updates[i].previous_modified = p.last_modified
                         /\ call.updates[i].current_modified = c.last_modified

\* u1/a had a sha before and has none now, and its last_modified moved
C9_Witness ==
    /\ Called
    /\ "u1/a" \in CommonIds
    /\ call.previous_models["u1/a"].sha = "abc123"
    /\ call.current_model_dict["u1/a"].sha = None
    /\ call.previous_models["u1/a"].last_modified = IsoFormat("t1")
    /\ call.current_model_dict["u1/a"].last_modified = IsoFormat("t2")
    /\ Cardinality(EventsOf("u1/a")) = 1

\* C10: every event names an id of the current listing; an id that is only
\* in the previous snapshot gets none.
C10_RemovedNoEvent ==
    Called =>
      /\ \A i \in 1..Len(call.updates) : call.updates[i].model_id \in CurrIds
      /\ \A id \in PrevIds \ CurrIds : EventsOf(id) = {}

\* u1/a was in the snapshot and is gone from a successful listing that
\* reports u1/b
C10_Witness ==
    /\ Called
    /\ ~call.raised
    /\ "u1/a" \in PrevIds \ CurrIds
    /\ "u1/b" \in CurrIds
    /\ Len(call.updates) >= 1

----------------------------------------------------------------------------
(* The scan cycle: order of events, of the save and of the notifications *)

UserPos(username) == CHOOSE i \in 1..Len(Users) : Users[i] = username

\* the events of seq come account by account in configuration order, and
\* within an account no model_updated event comes before a new_model event
AccountOrdered(seq) ==
    \A i \in 1..Len(seq) : \A j \in 1..Len(seq) :
        i < j =>
            /\ UserPos(seq[i].user) <= UserPos(seq[j].user)
            /\ (seq[i].user = seq[j].user /\ seq[j].type = "new_model")
                  => seq[i].type = "new_model"

\* C11: the update list of a cycle is ordered by account in configuration
\* order with every new_model event of an account before its model_updated
\* events, and the notifications are sent in the order of the list.
C11_EventOrder ==
    /\ AccountOrdered(all_updates)
    /\ Len(dispatched) <= Len(all_updates)
    /\ dispatched = SubSeq(all_updates, 1, Len(dispatched))

\* a cycle has returned after it dispatched a new_model event of an account
\* followed by a model_updated event of the same account
C11_Witness ==
    /\ pc = "sleep"
    /\ dispatched = all_updates
    /\ \E i \in 1..Len(dispatched) : \E j \in 1..Len(dispatched) :
          /\ i < j
          /\ dispatched[i].user = dispatched[j].user
          /\ dispatched[i].type = "new_model"
          /\ dispatched[j].type = "model_updated"

----------------------------------------------------------------------------
(* The state file at process start *)

\* the first cycle of a process whose _load_state found no usable file
FirstCycleAfterFailedLoad ==
    /\ proc = "running"
    /\ in_initial
    /\ load_result \in {"missing", "corrupt"}

\* C13: when the state file is missing or cannot be parsed (a partially
\* written one included), _load_state returns the empty mapping and the
\* process runs on, and the cycle that follows reports every model it
\* fetches as new_model and none as model_updated.
C13_LoadFailsSoft ==
    /\ (FirstCycleAfterFailedLoad /\ pc = "check" /\ user_idx = 1) => state = EmptyDict
    /\ (FirstCycleAfterFailedLoad /\ Called) =>
          /\ \A i \in 1..Len(call.updates) : call.updates[i].type = "new_model"
          /\ {call.updates[i].model_id : i \in 1..Len(call.updates)} = call.listed_ids

\* the process was started again on a partially written state file that
\* holds an entry, and its first cycle has reported a model as new
C13_Witness ==
    /\ restarts >= 1
    /\ load_result = "corrupt"
    /\ \E i \in 1..Len(disk.text) : disk.text[i].k = "entry"
    /\ FirstCycleAfterFailedLoad
    /\ Called
    /\ call.listed_ids # {}
    /\ Len(call.updates) >= 1

----------------------------------------------------------------------------
(* Delivery of the notifications *)

\* check_all_users has returned all_updates: run_continuous is at the top of
\* its loop and has not been through the handler of lines 330-332
Returned == proc = "running" /\ pc = "sleep" /\ pauses = <<>>

\* an error has left check_all_users
CycleAborted == proc = "crashed" \/ pc = "cooldown"

\* C14: a failed delivery, whatever the kind of its error, neither ends the
\* cycle nor blocks the later alerts: every update handed to
\* _send_telegram_notification gets a send attempt, the updates are handed
\* over in list order whatever happened to the earlier ones, a cycle ends
\* early only on an error of _format_update_message, and when
\* check_all_users returns every update of the list has been attempted.
C14_DeliveryFailureContained ==
    /\ Len(deliveries) = Len(dispatched)
    /\ \A i \in 1..Len(deliveries) : deliveries[i].calls >= 1
    /\ Len(dispatched) <= Len(all_updates)
    /\ dispatched = SubSeq(all_updates, 1, Len(dispatched))
    /\ Returned => dispatched = all_updates
    /\ CycleAborted =>
          /\ Len(dispatched) < Len(all_updates)
          /\ FormatRaises(all_updates[Len(dispatched) + 1])

\* check_all_users has returned after the delivery of the first update
\* failed and a send was attempted for the second
C14_Witness ==
    /\ Returned
    /\ Len(all_updates) >= 2
    /\ ~deliveries[1].delivered
    /\ deliveries[2].calls >= 1

\* C15: for one update _send_telegram_notification invokes send_message at
\* most once, whatever error the send raises.
C15_NoRetry ==
    \A i \in 1..Len(deliveries) : deliveries[i].calls <= 1

----------------------------------------------------------------------------
(* The stored snapshots *)

CountMatches(snap) == snap.model_count = Cardinality(DOMAIN snap.models)

\* C16: every snapshot a scan cycle has stored or written to the state file
\* has model_count equal to the number of keys of its models, and a snapshot
\* is replaced as a whole: after a check the three fields of the account's
\* snapshot are the ones of that check, never models of one cycle beside
\* model_count or last_checked of another.
C16_SnapshotConsistent ==
    /\ \A u \in DOMAIN state : CountMatches(state[u])
    /\ \A i \in 1..Len(disk.text) :
          disk.text[i].k = "entry" => CountMatches(disk.text[i].snap)
    /\ (Called /\ ~call.error) =>
          /\ state[call.username].models = call.current_model_dict
          /\ state[call.username].last_checked = now
          /\ state[call.username].model_count = Cardinality(DOMAIN call.current_model_dict)

\* a check has replaced a stored snapshot by one with another number of
\* models
C16_Witness ==
    /\ Called
    /\ ~call.error
    /\ call.had_previous
    /\ call.previous_state.last_checked < now
    /\ call.previous_state.model_count # state[call.username].model_count
    /\ state[call.username].model_count >= 1

----------------------------------------------------------------------------
(* Errors raised while an account is checked *)

\* C17: an error raised by _check_user_updates before its state assignment
\* leaves the account's snapshot in self.state as it was, adds no event of
\* the account to the cycle's list, and does not stop the cycle: the
\* remaining accounts are checked, the state is saved and the events of the
\* other accounts are dispatched.
C17_CheckErrorContained ==
    /\ (Called /\ call.error) =>
          IF call.had_previous
          THEN call.username \in DOMAIN state /\ state[call.username] = call.previous_state
          ELSE call.username \notin DOMAIN state
    /\ \A i \in 1..Len(all_updates) : all_updates[i].user \notin check_errors
    /\ \A i \in 1..Len(dispatched) : dispatched[i].user \notin check_errors
    /\ pc \in {"save", "write", "notify", "sleep", "cooldown"} => user_idx = Len(Users) + 1
    /\ CycleAborted => (saves = 1 /\ user_idx = Len(Users) + 1)
    /\ Returned => (saves = 1 /\ dispatched = all_updates)

\* a cycle has returned in which the check of u1 raised while u1 had a
\* snapshot with models, u2 was checked after it, the state was saved and an
\* event of u2 was dispatched
C17_Witness ==
    /\ Returned
    /\ "u1" \in check_errors
    /\ "u1" \in DOMAIN state
    /\ state["u1"].model_count >= 1
    /\ state["u1"].last_checked < now
    /\ saves = 1
    /\ \E i \in 1..Len(dispatched) : dispatched[i].user = "u2"

----------------------------------------------------------------------------
(* Re-running a cycle over an unchanged catalog *)

\* C18: when the previous cycle returned with every account fetched (listing
\* and details) and the catalog has not changed since that cycle read it, a
\* check of the next cycle in which no detail fetch fails emits no event and
\* leaves the account's models mapping as it was.
C18_IdempotentRerun ==
    (stable /\ Called /\ ~call.error /\ call.basic = EmptyDict) =>
        /\ call.updates = <<>>
        /\ state[call.username].models = call.previous_models

----------------------------------------------------------------------------
(* Detail fetches that fail *)

\* C19: after a listing that succeeded the keys of the new snapshot are the
\* listed ids, whichever detail fetches failed, and an id whose detail fetch
\* failed is stored with the fields of its basic listing record.
C19_DetailFailureNonFatal ==
    (Called /\ ~call.error /\ ~call.raised) =>
        /\ DOMAIN state[call.username].models = call.listed_ids
        /\ \A id \in DOMAIN call.basic :
              Get(state[call.username].models, id, EmptyDict) = FormatModelInfo(call.basic[id])

\* two ids were listed, the detail fetch failed for one of them only, and
\* the basic record of that one lacks the sha the catalog holds
C19_Witness ==
    /\ Called
    /\ ~call.raised
    /\ Cardinality(call.listed_ids) = 2
    /\ Cardinality(DOMAIN call.basic) = 1
    /\ \A id \in DOMAIN call.basic :
          /\ call.basic[id].sha = None
          /\ catalog[id].sha # None
          /\ state[call.username].models[id].sha = None

----------------------------------------------------------------------------
(* The scheduler *)

\* a scan cycle is in flight
InCycle == pc \in {"check", "save", "write", "notify"}

\* C20: the first cycle of a process runs before any sleep, every later
\* cycle comes after exactly one sleep of the configured interval, and the
\* cycle that retries after an error caught by the loop comes after the
\* cool-down pause alone.
C20_SchedulerOrder ==
    InCycle =>
        IF in_initial THEN pauses = <<>>
        ELSE pauses \in {<<"interval">>, <<"cooldown">>}

====
